---- MODULE Spec2Model ----
(***************************************************************************)
(* Model of coral/analysis/_sequencing/calign.pyx: the pairwise aligner    *)
(* (aligner) and the standalone scorer (score_alignment).                  *)
(*                                                                         *)
(* Symbols are C chars, modelled by their character codes.  Sequences are  *)
(* TLA+ sequences of codes; the C index k is the TLA+ index k + 1.         *)
(* Scores are float32 in the source; every value the model produces is a   *)
(* small integer, which float32 represents exactly, except -inf, which is  *)
(* modelled by NegInf together with an absorbing addition.                 *)
(***************************************************************************)
EXTENDS Integers, Sequences, FiniteSets, TLC

\* ------------------------------------------------------------------ bounds
MaxLen == 3

\* --------------------------------------------------------------- constants
NONE == 0
LEFT == 1
UP == 2
DIAG == 3
GAP == 45
NegInf == -1000000

\* character codes of the symbols the inputs are drawn from
Ch == [A |-> 65, C |-> 67, T |-> 84, U |-> 85]

\* ------------------------------------------------------------------ inputs
\* A SubstitutionMatrix is supplied data: its alphabet (as character codes)
\* and its square table, indexed by position in the alphabet.
DNA_AT == [alphabet |-> <<Ch.A, Ch.T>>, m |-> <<<<1, -1>>, <<-1, 1>>>>]

Methods == {"global", "local", "glocal", "global_cfe"}

RECURSIVE SeqsUpTo(_, _)
SeqsUpTo(S, n) ==
    IF n = 0 THEN {<<>>}
    ELSE LET shorter == SeqsUpTo(S, n - 1)
         IN  shorter \cup {Append(s, c) : s \in {t \in shorter : Len(t) = n - 1}, c \in S}

\* values an uninitialised C int may hold when it is read
UninitInts == {-2, -1, 0, 1}

\* ----------------------------------------------------------------- helpers
Reverse(s) == [k \in 1..Len(s) |-> s[Len(s) + 1 - k]]

\* float32 addition with -inf absorbing
FAdd(a, b) == IF a = NegInf \/ b = NegInf THEN NegInf ELSE a + b

\* the largest of the last two arguments only
max3_NoFirst(a, b, c) == IF c > b THEN c ELSE b

max3(a, b, c) ==
    IF c > b THEN (IF c > a THEN c ELSE a)
    ELSE (IF b > a THEN b ELSE a)

max2(a, b) == IF b > a THEN b ELSE a

RECURSIVE MaxOfSeq(_)
MaxOfSeq(s) == IF Len(s) = 1 THEN s[1] ELSE max2(MaxOfSeq(Tail(s)), s[1])

\* position (1-based) of code c in the alphabet, 0 if absent; the last
\* occurrence wins, as the later assignment of as_ord_matrix overwrites
AlphaPos(alphabet, c) ==
    LET ps == {k \in 1..Len(alphabet) : alphabet[k] = c}
    IN  IF ps = {} THEN 0 ELSE CHOOSE k \in ps : \A q \in ps : q <= k

\* as_ord_matrix: a zero matrix of side max(ords) + 1 in which the cell of
\* every pair of alphabet codes holds the matrix entry.  The dense table is
\* kept as its side and the entries written into it; OrdAt reads a cell.
as_ord_matrix(mx) ==
    [side |-> MaxOfSeq(mx.alphabet) + 1, ords |-> mx.alphabet, m |-> mx.m]

OrdAt(amatrix, r, c) ==
    IF AlphaPos(amatrix.ords, r) > 0 /\ AlphaPos(amatrix.ords, c) > 0
    THEN amatrix.m[AlphaPos(amatrix.ords, r)][AlphaPos(amatrix.ords, c)]
    ELSE 0

\* amatrix[ci, cj] under Cython's default bounds check: the codes are
\* non-negative here, so the access fails exactly when a code is >= side
OrdInRange(amatrix, ci, cj) == ci < amatrix.side /\ cj < amatrix.side

\* ------------------------------------------------------------------- state
VARIABLES
    \* arguments of the call (arg_seqj, arg_seqi are _seqj, _seqi)
    arg_seqj, arg_seqi, gap_open, gap_extend, gap_double, method, matrix,
    \* position in aligner and how it ended
    pc, exc, ret,
    \* locals of aligner
    imethod, flip, seqj, seqi, max_j, max_i,
    score, pointer, agap_i, agap_j,
    i, j, p, align_j, align_i,
    \* the cell the traceback started at, kept for the properties
    start,
    \* the result of score_alignment on the returned pair
    rescore,
    \* a second call with the arguments exchanged: which call this is, and what
    \* the first call returned and scored
    calls, prev_ret, prev_best,
    \* a second invocation running concurrently: the frame of the invocation that
    \* is not running, and which invocation (1 or 2) the locals above belong to
    parked, tid,
    \* what each of the two invocations returned when it ran alone
    alone,
    \* the recurrence taken cell by cell: the number of interior cells done, and
    \* the cells written so far
    fill_k, written,
    \* score_alignment called on its own: arguments a, b (gap_open, gap_extend
    \* and matrix above), its position, its locals and how it ended
    a, b, s_pc, s_exc, l, s_i, s_score, gap_started

aligner_vars == <<arg_seqj, arg_seqi, gap_double, method,
                  pc, exc, ret, imethod, flip, seqj, seqi, max_j, max_i,
                  score, pointer, agap_i, agap_j, i, j, p, align_j, align_i,
                  start, rescore>>
harness_vars == <<calls, prev_ret, prev_best, parked, tid, alone>>
trace_vars == <<fill_k, written>>
scorer_vars == <<a, b, s_pc, s_exc, l, s_i, s_score, gap_started>>

vars == <<gap_open, gap_extend, matrix, aligner_vars, harness_vars, trace_vars,
          scorer_vars>>

args == <<arg_seqj, arg_seqi, gap_open, gap_extend, gap_double, method, matrix>>
others == <<harness_vars, trace_vars, scorer_vars>>
grids == <<score, pointer, agap_i, agap_j>>

\* the grids before they are allocated, and the scorer's result before it ran
NoGrid == <<>>
NoScore == [score |-> 0, gap_started |-> FALSE, exc |-> "unset"]
\* the frame of an invocation that does not exist
NoFrame == [pc |-> "idle"]

\* --------------------------------------------------- aligner: lines 105-138
\* the if/elif chain assigns imethod for the four known methods only; for any
\* other method the C int stays uninitialised
imethod_of(m) ==
    IF m = "global" THEN {0}
    ELSE IF m = "local" THEN {1}
    ELSE IF m = "glocal" THEN {2}
    ELSE IF m = "global_cfe" THEN {3}
    ELSE {0, 1, 2, 3, 4}

\* the degenerate call is not recognised and runs on into the grids
EarlyReturn_Never(mi, mj) == FALSE

\* the degenerate call: both inputs empty
EarlyReturn(mi, mj) == mi = 0 /\ mj = 0

Entry ==
    /\ pc = "entry"
    /\ \E im \in imethod_of(method) :
        /\ imethod' = im
        /\ IF EarlyReturn(Len(arg_seqi), Len(arg_seqj))
           THEN /\ pc' = "done"
                /\ ret' = << <<>>, <<>> >>
                /\ UNCHANGED <<exc, flip, seqj, seqi, max_j, max_i>>
           ELSE /\ flip' = (Len(arg_seqj) > Len(arg_seqi))
                /\ seqi' = IF flip' THEN arg_seqj ELSE arg_seqi
                /\ seqj' = IF flip' THEN arg_seqi ELSE arg_seqj
                /\ max_i' = Len(seqi')
                /\ max_j' = Len(seqj')
                /\ IF gap_extend <= 0 /\ gap_open <= 0
                   THEN pc' = "fill" /\ UNCHANGED exc
                   ELSE pc' = "raised" /\ exc' = "AssertionError"
                /\ UNCHANGED ret
    /\ UNCHANGED <<args, grids, i, j, p, align_j, align_i, start, rescore, others>>

\* --------------------------------------------------- aligner: lines 140-192
\* element k >= 1 of gap_open + gap_extend * arange(0, n)
Affine(go, ge, k) == go + ge * (k - 1)

\* the borders charged gap_open at every cell, without the extensions
InitScore_OpenOnly(im, mi, mj, go, ge) ==
    [r \in 0..mi |-> [c \in 0..mj |->
        IF r = 0 /\ c >= 1 /\ im \in {0, 2} THEN go
        ELSE IF c = 0 /\ r >= 1 /\ im = 0 THEN go
        ELSE 0]]

InitScore(im, mi, mj, go, ge) ==
    [r \in 0..mi |-> [c \in 0..mj |->
        IF r = 0 /\ c >= 1 /\ im \in {0, 2} THEN Affine(go, ge, c)
        ELSE IF c = 0 /\ r >= 1 /\ im = 0 THEN Affine(go, ge, r)
        ELSE 0]]

\* the pointers of glocal without the LEFT seeding of row 0
InitPointer_GlocalRowUnseeded(im, mi, mj) ==
    [r \in 0..mi |-> [c \in 0..mj |->
        IF r = 0 /\ c >= 1 /\ im \in {0, 3} THEN LEFT
        ELSE IF c = 0 /\ r >= 1 /\ im \in {0, 3} THEN UP
        ELSE NONE]]

\* the pointers of glocal seeded like those of global, UP down column 0
InitPointer_GlocalColumnUp(im, mi, mj) ==
    [r \in 0..mi |-> [c \in 0..mj |->
        IF r = 0 /\ c >= 1 /\ im \in {0, 2, 3} THEN LEFT
        ELSE IF c = 0 /\ r >= 1 /\ im \in {0, 2, 3} THEN UP
        ELSE NONE]]

InitPointer(im, mi, mj) ==
    [r \in 0..mi |-> [c \in 0..mj |->
        IF r = 0 /\ c >= 1 /\ im \in {0, 2, 3} THEN LEFT
        ELSE IF c = 0 /\ r >= 1 /\ im \in {0, 3} THEN UP
        ELSE NONE]]

InitGap(mi, mj) == [r \in 0..mi |-> [c \in 0..mj |-> NegInf]]

InitGrids(im, mi, mj, go, ge) ==
    [score   |-> InitScore(im, mi, mj, go, ge),
     pointer |-> InitPointer(im, mi, mj),
     agap_i  |-> InitGap(mi, mj),
     agap_j  |-> InitGap(mi, mj),
     raised  |-> FALSE]

\* the pointer without its else branch: the cell keeps the NONE of np.zeros
PointerOf_NoElse(max_score, up_score, left_score) ==
    IF max_score = up_score THEN UP
    ELSE IF max_score = left_score THEN LEFT
    ELSE NONE

\* the pointer with DIAG written as 4
PointerOf_DiagAsFour(max_score, up_score, left_score) ==
    IF max_score = up_score THEN UP
    ELSE IF max_score = left_score THEN LEFT
    ELSE 4

\* the pointer with the row-gap candidate tested first
PointerOf_LeftFirst(max_score, up_score, left_score) ==
    IF max_score = left_score THEN LEFT
    ELSE IF max_score = up_score THEN UP
    ELSE DIAG

\* the pointer the recurrence records at a cell
PointerOf(max_score, up_score, left_score) ==
    IF max_score = up_score THEN UP
    ELSE IF max_score = left_score THEN LEFT
    ELSE DIAG

\* the body of the inner loop at cell (r, c); ci, cj are the two symbols
FillCell(g, r, c, ci, cj, go, ge, gd, amatrix) ==
    LET ai == max3(FAdd(g.score[r][c - 1], go),
                   FAdd(g.agap_i[r][c - 1], ge),
                   FAdd(g.agap_j[r][c - 1], gd))
        aj == max3(FAdd(g.score[r - 1][c], go),
                   FAdd(g.agap_j[r - 1][c], ge),
                   FAdd(g.agap_i[r - 1][c], gd))
        diag_score == g.score[r - 1][c - 1] + OrdAt(amatrix, ci, cj)
        left_score == ai
        up_score   == aj
        max_score  == max3(diag_score, up_score, left_score)
    IN  IF ~OrdInRange(amatrix, ci, cj)
        THEN [g EXCEPT !.agap_i[r][c] = ai, !.agap_j[r][c] = aj, !.raised = TRUE]
        ELSE [g EXCEPT !.agap_i[r][c] = ai,
                       !.agap_j[r][c] = aj,
                       !.score[r][c] = max_score,
                       !.pointer[r][c] = PointerOf(max_score, up_score, left_score)]

\* the inner loop running from the last column down to the first
CellOf_ColumnsBackwards(k, mj) == <<1 + (k \div mj), mj - (k % mj)>>

\* the cell the two nested loops visit at their iteration k (0-based): rows
\* outside, columns inside
CellOf(k, mj) == <<1 + (k \div mj), 1 + (k % mj)>>

\* the cells whose grid values the loop body at (r, c) reads
ReadsOf(r, c) == {<<r, c - 1>>, <<r - 1, c>>, <<r - 1, c - 1>>}

\* the two nested loops, cell k (0-based, row-major over the interior) onwards
RECURSIVE FillFrom(_, _, _, _, _, _, _, _)
FillFrom(g, k, si, sj, go, ge, gd, amatrix) ==
    IF g.raised \/ k >= Len(si) * Len(sj) THEN g
    ELSE LET r == CellOf(k, Len(sj))[1]
             c == CellOf(k, Len(sj))[2]
         IN  FillFrom(FillCell(g, r, c, si[r], sj[c], go, ge, gd, amatrix),
                      k + 1, si, sj, go, ge, gd, amatrix)

Fill ==
    /\ pc = "fill"
    /\ LET g == FillFrom(InitGrids(imethod, max_i, max_j, gap_open, gap_extend),
                         0, seqi, seqj, gap_open, gap_extend, gap_double,
                         as_ord_matrix(matrix))
       IN  /\ score' = g.score
           /\ pointer' = g.pointer
           /\ agap_i' = g.agap_i
           /\ agap_j' = g.agap_j
           /\ IF g.raised
              THEN pc' = "raised" /\ exc' = "IndexError"
              ELSE pc' = "select" /\ UNCHANGED exc
    \* i and j are the loop variables: each ends at its last value if its
    \* loop ran and is never assigned otherwise (max_i >= 1 after Entry)
    /\ IF max_i >= 1 THEN i' = max_i ELSE i' \in UninitInts
    /\ IF max_j >= 1 THEN j' = max_j ELSE j' \in UninitInts
    /\ UNCHANGED <<args, ret, imethod, flip, seqj, seqi, max_j, max_i,
                   p, align_j, align_i, start, rescore, others>>

\* ------------------------------ the same lines, one loop iteration at a time
\* the grids allocated and their borders initialised
FillBegin ==
    /\ pc = "fill"
    /\ LET g == InitGrids(imethod, max_i, max_j, gap_open, gap_extend)
       IN  /\ score' = g.score
           /\ pointer' = g.pointer
           /\ agap_i' = g.agap_i
           /\ agap_j' = g.agap_j
    /\ fill_k' = 0
    /\ written' = {rc \in (0..max_i) \X (0..max_j) : rc[1] = 0 \/ rc[2] = 0}
    /\ pc' = "filling"
    /\ UNCHANGED <<args, exc, ret, imethod, flip, seqj, seqi, max_j, max_i,
                   i, j, p, align_j, align_i, start, rescore, harness_vars,
                   scorer_vars>>

\* one iteration of the inner loop
FillStep ==
    /\ pc = "filling"
    /\ fill_k < max_i * max_j
    /\ LET r == CellOf(fill_k, max_j)[1]
           c == CellOf(fill_k, max_j)[2]
           g == FillCell([score |-> score, pointer |-> pointer, agap_i |-> agap_i,
                          agap_j |-> agap_j, raised |-> FALSE],
                         r, c, seqi[r], seqj[c], gap_open, gap_extend, gap_double,
                         as_ord_matrix(matrix))
       IN  /\ i' = r
           /\ j' = c
           /\ score' = g.score
           /\ pointer' = g.pointer
           /\ agap_i' = g.agap_i
           /\ agap_j' = g.agap_j
           /\ written' = written \cup {<<r, c>>}
           /\ IF g.raised
              THEN pc' = "raised" /\ exc' = "IndexError"
              ELSE UNCHANGED <<pc, exc>>
    /\ fill_k' = fill_k + 1
    /\ UNCHANGED <<args, ret, imethod, flip, seqj, seqi, max_j, max_i,
                   p, align_j, align_i, start, rescore, harness_vars, scorer_vars>>

\* both loops exhausted
FillEnd ==
    /\ pc = "filling"
    /\ fill_k >= max_i * max_j
    /\ IF max_i >= 1 THEN i' = max_i ELSE i' \in UninitInts
    /\ IF max_j >= 1 THEN j' = max_j ELSE j' \in UninitInts
    /\ pc' = "select"
    /\ UNCHANGED <<args, exc, ret, imethod, flip, seqj, seqi, max_j, max_i, grids,
                   p, align_j, align_i, start, rescore, others>>

\* --------------------------------------------------- aligner: lines 195-218
\* a[k] on an axis of length n under Cython's defaults: a negative index
\* wraps around once, and the access raises IndexError outside 0..n-1
WrapIdx(k, n) == IF k < 0 THEN k + n ELSE k
InGrid(r, c, mi, mj) == WrapIdx(r, mi + 1) \in 0..mi /\ WrapIdx(c, mj + 1) \in 0..mj
At(grid, r, c, mi, mj) == grid[WrapIdx(r, mi + 1)][WrapIdx(c, mj + 1)]

\* numpy argmax of a row or column given as a function on 0..n: the first
\* index holding the largest value
ArgMax(f, n) ==
    CHOOSE k \in 0..n : /\ \A q \in 0..n : f[q] <= f[k]
                        /\ \A q \in 0..(k - 1) : f[q] < f[k]

\* max_index: the earliest cell of the row-flattened array holding its maximum
max_index(array, mi, mj) ==
    CHOOSE rc \in (0..mi) \X (0..mj) :
        /\ \A r \in 0..mi, c \in 0..mj : array[r][c] <= array[rc[1]][rc[2]]
        /\ \A r \in 0..mi, c \in 0..mj :
              (r < rc[1] \/ (r = rc[1] /\ c < rc[2])) => array[r][c] < array[rc[1]][rc[2]]

LastRow(array, mi, mj) == [c \in 0..mj |-> array[mi][c]]
LastCol(array, mi, mj) == [r \in 0..mi |-> array[r][mj]]

\* the global_cfe branch left out: the pointers stay as the recurrence wrote them
ForceFreeEnd_Skipped(ptr, array, mi, mj) == ptr

\* the global_cfe branch: the free trailing gap written into the pointers
ForceFreeEnd(ptr, array, mi, mj) ==
    LET col_idx == ArgMax(LastRow(array, mi, mj), mj)
        row_max == array[mi][col_idx]
        row_idx == ArgMax(LastCol(array, mi, mj), mi)
        col_max == array[row_idx][mj]
    IN  IF row_max > col_max
        THEN [r \in 0..mi |-> [c \in 0..mj |->
                 IF r = mi /\ c >= col_idx + 1 THEN LEFT ELSE ptr[r][c]]]
        ELSE [r \in 0..mi |-> [c \in 0..mj |->
                 IF c = mj /\ r >= row_idx + 1 THEN UP ELSE ptr[r][c]]]

\* global starting at the bottom-right corner instead of the grid maximum
StartCell_GlobalCorner(im, array, mi, mj, li, lj) ==
    IF im = 0 THEN <<mi, mj>>
    ELSE IF im = 2 THEN <<ArgMax(LastCol(array, mi, mj), mi), mj>>
    ELSE <<li, lj>>

\* a start cell without the glocal branch: glocal keeps the loop variables
StartCell_NoGlocal(im, array, mi, mj, li, lj) ==
    IF im = 0 THEN max_index(array, mi, mj) ELSE <<li, lj>>

\* the cell the walk starts at: assigned in the global and glocal branches
\* only; the other methods keep the loop variables
StartCell(im, array, mi, mj, li, lj) ==
    IF im = 0 THEN max_index(array, mi, mj)
    ELSE IF im = 2 THEN <<ArgMax(LastCol(array, mi, mj), mi), mj>>
    ELSE <<li, lj>>

SelectStart ==
    /\ pc = "select"
    /\ LET cell == StartCell(imethod, score, max_i, max_j, i, j)
       IN  /\ i' = cell[1]
           /\ j' = cell[2]
    /\ pointer' = IF imethod = 3 THEN ForceFreeEnd(pointer, score, max_i, max_j)
                  ELSE pointer
    /\ align_j' = <<>>
    /\ align_i' = <<>>
    /\ IF InGrid(i', j', max_i, max_j)
       THEN /\ p' = At(pointer', i', j', max_i, max_j)
            /\ start' = <<WrapIdx(i', max_i + 1), WrapIdx(j', max_j + 1)>>
            /\ pc' = "walk"
            /\ UNCHANGED exc
       ELSE /\ pc' = "raised"
            /\ exc' = "IndexError"
            /\ UNCHANGED <<p, start>>
    /\ UNCHANGED <<args, ret, imethod, flip, seqj, seqi, max_j, max_i,
                   score, agap_i, agap_j, rescore, others>>

\* --------------------------------------------------- aligner: lines 219-236
\* the symbol read at the index as it was before the decrement
CharAt_BeforeDecrement(s, k) == IF k + 1 \in 0..(Len(s) - 1) THEN s[k + 2] ELSE 0

\* s[k] on a C string: the symbol at k, the terminating NUL at strlen(s)
CharAt(s, k) == IF k \in 0..(Len(s) - 1) THEN s[k + 1] ELSE 0

\* the walk with the LEFT branch writing the gap marker into both buffers
TracebackStep_LeftGapBoth ==
    /\ pc = "walk"
    /\ p # NONE
    /\ IF p = DIAG
       THEN /\ i' = i - 1
            /\ j' = j - 1
            /\ align_j' = Append(align_j, CharAt(seqj, j'))
            /\ align_i' = Append(align_i, CharAt(seqi, i'))
       ELSE IF p = LEFT
       THEN /\ i' = i
            /\ j' = j - 1
            /\ align_j' = Append(align_j, GAP)
            /\ align_i' = Append(align_i, GAP)
       ELSE IF p = UP
       THEN /\ i' = i - 1
            /\ j' = j
            /\ align_j' = Append(align_j, GAP)
            /\ align_i' = Append(align_i, CharAt(seqi, i'))
       ELSE UNCHANGED <<i, j, align_j, align_i>>
    /\ IF p \notin {DIAG, LEFT, UP}
       THEN pc' = "raised" /\ exc' = "Exception" /\ UNCHANGED p
       ELSE IF InGrid(i', j', max_i, max_j)
       THEN p' = At(pointer, i', j', max_i, max_j) /\ UNCHANGED <<pc, exc>>
       ELSE pc' = "raised" /\ exc' = "IndexError" /\ UNCHANGED p
    /\ UNCHANGED <<args, ret, imethod, flip, seqj, seqi, max_j, max_i,
                   grids, start, rescore, others>>

\* one iteration of the while loop of the walk
TracebackStep ==
    /\ pc = "walk"
    /\ p # NONE
    /\ IF p = DIAG
       THEN /\ i' = i - 1
            /\ j' = j - 1
            /\ align_j' = Append(align_j, CharAt(seqj, j'))
            /\ align_i' = Append(align_i, CharAt(seqi, i'))
       ELSE IF p = LEFT
       THEN /\ i' = i
            /\ j' = j - 1
            /\ align_j' = Append(align_j, CharAt(seqj, j'))
            /\ align_i' = Append(align_i, GAP)
       ELSE IF p = UP
       THEN /\ i' = i - 1
            /\ j' = j
            /\ align_j' = Append(align_j, GAP)
            /\ align_i' = Append(align_i, CharAt(seqi, i'))
       ELSE UNCHANGED <<i, j, align_j, align_i>>
    /\ IF p \notin {DIAG, LEFT, UP}
       THEN pc' = "raised" /\ exc' = "Exception" /\ UNCHANGED p
       ELSE IF InGrid(i', j', max_i, max_j)
       THEN p' = At(pointer, i', j', max_i, max_j) /\ UNCHANGED <<pc, exc>>
       ELSE pc' = "raised" /\ exc' = "IndexError" /\ UNCHANGED p
    /\ UNCHANGED <<args, ret, imethod, flip, seqj, seqi, max_j, max_i,
                   grids, start, rescore, others>>

\* --------------------------------------------------- aligner: lines 238-244
\* the pair handed back without undoing the exchange of the inputs
ReturnPair_NoFlip(fl, aj, ai) == <<Reverse(aj), Reverse(ai)>>

\* the pair handed back exchanged whether or not the inputs were
ReturnPair_AlwaysFlip(fl, aj, ai) == <<Reverse(ai), Reverse(aj)>>

\* the pair handed back: the two buffers reversed, in the callers' order
ReturnPair(fl, aj, ai) ==
    IF fl THEN <<Reverse(ai), Reverse(aj)>> ELSE <<Reverse(aj), Reverse(ai)>>

Return ==
    /\ pc = "walk"
    /\ p = NONE
    /\ ret' = ReturnPair(flip, align_j, align_i)
    /\ pc' = "done"
    /\ UNCHANGED <<args, exc, imethod, flip, seqj, seqi, max_j, max_i,
                   grids, i, j, p, align_j, align_i, start, rescore, others>>

\* ------------------------------------------- score_alignment: lines 263-280
\* one iteration of the loop over the positions, on symbols x = al[i], y = bl[i]
score_step(st, x, y, go, ge, mat) ==
    IF x = GAP \/ y = GAP
    THEN [st EXCEPT !.score = @ + (IF st.gap_started THEN ge ELSE go),
                    !.gap_started = TRUE]
    ELSE IF ~OrdInRange(mat, x, y)
    THEN [st EXCEPT !.exc = "IndexError"]
    ELSE [st EXCEPT !.score = @ + OrdAt(mat, x, y), !.gap_started = FALSE]

RECURSIVE score_loop(_, _, _, _, _, _, _)
score_loop(st, k, x, y, go, ge, mat) ==
    IF st.exc # "none" \/ k > Len(x) THEN st
    ELSE score_loop(score_step(st, x[k], y[k], go, ge, mat), k + 1, x, y, go, ge, mat)

\* an assertion that only rejects a second sequence that is too short
LengthsAgree_AtLeast(la, lb) == lb >= la

\* the assertion on the two lengths
LengthsAgree(la, lb) == lb = la

score_alignment(x, y, go, ge, mx) ==
    IF ~LengthsAgree(Len(x), Len(y))
    THEN [score |-> 0, gap_started |-> FALSE, exc |-> "AssertionError"]
    ELSE score_loop([score |-> 0, gap_started |-> FALSE, exc |-> "none"],
                    1, x, y, go, ge, as_ord_matrix(mx))

\* score_alignment applied to the pair aligner returned, same parameters
ScoreReturned ==
    /\ pc = "done"
    /\ rescore' = score_alignment(ret[1], ret[2], gap_open, gap_extend, matrix)
    /\ pc' = "scored"
    /\ UNCHANGED <<args, exc, ret, imethod, flip, seqj, seqi, max_j, max_i,
                   grids, i, j, p, align_j, align_i, start, others>>

\* ------------------------------- the call repeated with exchanged arguments
SwapCall ==
    /\ pc = "done"
    /\ calls = 1
    /\ calls' = 2
    /\ prev_ret' = ret
    /\ prev_best' = IF score = NoGrid THEN 0 ELSE score[start[1]][start[2]]
    /\ arg_seqj' = arg_seqi
    /\ arg_seqi' = arg_seqj
    /\ pc' = "entry"
    /\ ret' = << <<>>, <<>> >>
    /\ imethod' = 0
    /\ flip' = FALSE
    /\ seqj' = <<>>
    /\ seqi' = <<>>
    /\ max_j' = 0
    /\ max_i' = 0
    /\ score' = NoGrid
    /\ pointer' = NoGrid
    /\ agap_i' = NoGrid
    /\ agap_j' = NoGrid
    /\ i' = 0
    /\ j' = 0
    /\ p' = NONE
    /\ align_j' = <<>>
    /\ align_i' = <<>>
    /\ start' = <<0, 0>>
    /\ UNCHANGED <<gap_open, gap_extend, gap_double, method, matrix, exc, rescore,
                   parked, tid, alone, trace_vars, scorer_vars>>

\* ------------------------------------ two invocations on two threads
\* Everything aligner works on is an argument or a local of the call; the
\* matrix is the one object two calls share.  The variables above are the
\* frame of the invocation that is running, parked is the frame of the other.
Frame ==
    [id |-> tid,
     arg_seqj |-> arg_seqj, arg_seqi |-> arg_seqi, gap_open |-> gap_open,
     gap_extend |-> gap_extend, gap_double |-> gap_double, method |-> method,
     pc |-> pc, exc |-> exc, ret |-> ret, imethod |-> imethod, flip |-> flip,
     seqj |-> seqj, seqi |-> seqi, max_j |-> max_j, max_i |-> max_i,
     score |-> score, pointer |-> pointer, agap_i |-> agap_i,
     agap_j |-> agap_j, i |-> i, j |-> j, p |-> p, align_j |-> align_j,
     align_i |-> align_i, start |-> start]

\* the frame of a call at the entry of aligner
NewFrame(id, sj, si, go, ge, gd, m) ==
    [id |-> id, arg_seqj |-> sj, arg_seqi |-> si,
     gap_open |-> go, gap_extend |-> ge, gap_double |-> gd, method |-> m,
     pc |-> "entry", exc |-> "none", ret |-> << <<>>, <<>> >>, imethod |-> 0,
     flip |-> FALSE, seqj |-> <<>>, seqi |-> <<>>, max_j |-> 0, max_i |-> 0,
     score |-> NoGrid, pointer |-> NoGrid, agap_i |-> NoGrid,
     agap_j |-> NoGrid, i |-> 0, j |-> 0, p |-> NONE, align_j |-> <<>>,
     align_i |-> <<>>, start |-> <<0, 0>>]

\* output buffers kept in one static pair that every call writes into
Private_Static(mine, theirs) == theirs

\* the output buffers are allocated by the call that fills them: what a call
\* finds in them when it resumes is what it left there
Private(mine, theirs) == mine

\* the invocation with frame f runs on
Resume(f) ==
    /\ tid' = f.id
    /\ arg_seqj' = f.arg_seqj
    /\ arg_seqi' = f.arg_seqi
    /\ gap_open' = f.gap_open
    /\ gap_extend' = f.gap_extend
    /\ gap_double' = f.gap_double
    /\ method' = f.method
    /\ pc' = f.pc
    /\ exc' = f.exc
    /\ ret' = f.ret
    /\ imethod' = f.imethod
    /\ flip' = f.flip
    /\ seqj' = f.seqj
    /\ seqi' = f.seqi
    /\ max_j' = f.max_j
    /\ max_i' = f.max_i
    /\ score' = f.score
    /\ pointer' = f.pointer
    /\ agap_i' = f.agap_i
    /\ agap_j' = f.agap_j
    /\ i' = f.i
    /\ j' = f.j
    /\ p' = f.p
    /\ align_j' = Private(f.align_j, align_j)
    /\ align_i' = Private(f.align_i, align_i)
    /\ start' = f.start

\* arguments of the second invocation
Par2Seqs == {<<Ch.T>>, <<Ch.T, Ch.A>>}

\* the first invocation has run alone: the second one runs alone
Relay ==
    /\ pc = "done"
    /\ calls = 1
    /\ calls' = 2
    /\ alone' = [alone EXCEPT ![1] = ret]
    /\ parked' = NewFrame(1, arg_seqj, arg_seqi, gap_open, gap_extend, gap_double,
                          method)
    /\ \E sj \in Par2Seqs, m \in Methods :
          Resume(NewFrame(2, sj, <<Ch.A, Ch.T>>, -2, -1, -2, m))
    /\ UNCHANGED <<matrix, rescore, prev_ret, prev_best, trace_vars, scorer_vars>>

\* the second invocation has run alone: both are started again, together
Launch ==
    /\ pc = "done"
    /\ calls = 2
    /\ calls' = 3
    /\ alone' = [alone EXCEPT ![2] = ret]
    /\ Resume(NewFrame(2, arg_seqj, arg_seqi, gap_open, gap_extend, gap_double,
                       method))
    /\ UNCHANGED <<matrix, rescore, prev_ret, prev_best, parked, trace_vars,
                   scorer_vars>>

\* the scheduler takes the running invocation off and lets the other one run
Switch ==
    /\ calls = 3
    /\ parked.pc \notin {"idle", "done", "raised"}
    /\ parked' = Frame
    /\ Resume(parked)
    /\ UNCHANGED <<matrix, rescore, calls, prev_ret, prev_best, alone, trace_vars,
                   scorer_vars>>

\* ------------------------- score_alignment called on its own: lines 263-280
ScoreEntry ==
    /\ s_pc = "entry"
    /\ l' = Len(a)
    /\ IF LengthsAgree(Len(a), Len(b))
       THEN s_pc' = "loop" /\ UNCHANGED s_exc
       ELSE s_pc' = "raised" /\ s_exc' = "AssertionError"
    /\ UNCHANGED <<gap_open, gap_extend, matrix, aligner_vars, harness_vars, trace_vars,
                   a, b, s_i, s_score, gap_started>>

ScoreStep ==
    /\ s_pc = "loop"
    /\ s_i < l
    /\ LET st == score_step([score |-> s_score, gap_started |-> gap_started, exc |-> "none"],
                            a[s_i + 1], b[s_i + 1], gap_open, gap_extend,
                            as_ord_matrix(matrix))
       IN  /\ s_score' = st.score
           /\ gap_started' = st.gap_started
           /\ IF st.exc = "none"
              THEN s_i' = s_i + 1 /\ UNCHANGED <<s_pc, s_exc>>
              ELSE s_pc' = "raised" /\ s_exc' = st.exc /\ UNCHANGED s_i
    /\ UNCHANGED <<gap_open, gap_extend, matrix, aligner_vars, harness_vars, trace_vars, a, b, l>>

ScoreReturn ==
    /\ s_pc = "loop"
    /\ s_i >= l
    /\ s_pc' = "done"
    /\ UNCHANGED <<gap_open, gap_extend, matrix, aligner_vars, harness_vars, trace_vars,
                   a, b, s_exc, l, s_i, s_score, gap_started>>

\* ----------------------------------------------------------- specification
AlignerIdle(first_pc) ==
    /\ pc = first_pc
    /\ exc = "none"
    /\ ret = << <<>>, <<>> >>
    /\ imethod = 0
    /\ flip = FALSE
    /\ seqj = <<>>
    /\ seqi = <<>>
    /\ max_j = 0
    /\ max_i = 0
    /\ score = NoGrid
    /\ pointer = NoGrid
    /\ agap_i = NoGrid
    /\ agap_j = NoGrid
    /\ i = 0
    /\ j = 0
    /\ p = NONE
    /\ align_j = <<>>
    /\ align_i = <<>>
    /\ start = <<0, 0>>
    /\ rescore = NoScore
    /\ calls = 1
    /\ prev_ret = << <<>>, <<>> >>
    /\ prev_best = 0
    /\ parked = NoFrame
    /\ tid = 1
    /\ alone = << << <<>>, <<>> >>, << <<>>, <<>> >> >>
    /\ fill_k = 0
    /\ written = {}

ScorerIdle(first_pc) ==
    /\ s_pc = first_pc
    /\ s_exc = "none"
    /\ l = 0
    /\ s_i = 0
    /\ s_score = 0
    /\ gap_started = FALSE

\* a call of aligner with arguments drawn from the given sets
InitWith(Seqs, Ms, GOs, GEs, GDs, Mats) ==
    /\ arg_seqj \in Seqs
    /\ arg_seqi \in Seqs
    /\ method \in Ms
    /\ gap_open \in GOs
    /\ gap_extend \in GEs
    /\ gap_double \in GDs
    /\ matrix \in Mats
    /\ AlignerIdle("entry")
    /\ a = <<>>
    /\ b = <<>>
    /\ ScorerIdle("idle")

GapVals == {-2, -1, 0}
GapExtends == {-1, 0}
DNASeqs == SeqsUpTo({Ch.A, Ch.T}, MaxLen)

\* aligner on DNA sequences with valid gap penalties, then score_alignment on
\* the pair it returned
Init == InitWith(DNASeqs, Methods, GapVals, GapExtends, GapVals, {DNA_AT})

Next == Entry \/ Fill \/ SelectStart \/ TracebackStep \/ Return \/ ScoreReturned

Spec == Init /\ [][Next]_vars

\* aligner in global mode called twice, the second time with the two
\* sequences exchanged
InitSym == InitWith(DNASeqs, {"global"}, GapVals, GapVals, GapVals, {DNA_AT})

NextSym == Entry \/ Fill \/ SelectStart \/ TracebackStep \/ Return \/ SwapCall

SpecSym == InitSym /\ [][NextSym]_vars

\* aligner with gap penalties of either sign
InitConfig ==
    InitWith(SeqsUpTo({Ch.A}, MaxLen), Methods, {-1, 0, 1}, {-1, 0, 1}, {-1}, {DNA_AT})

SpecConfig == InitConfig /\ [][Next]_vars

\* aligner on sequences with symbols outside the matrix's alphabet: 'C' lies
\* below the largest code of the alphabet, 'U' above it
InitDomain ==
    InitWith(SeqsUpTo({Ch.A, Ch.C, Ch.U}, MaxLen - 1), Methods, {-1}, {-1}, {-1}, {DNA_AT})

SpecDomain == InitDomain /\ [][Next]_vars

\* score_alignment on arbitrary gapped sequences
InitScorer ==
    /\ a \in SeqsUpTo({Ch.A, Ch.T, GAP}, MaxLen)
    /\ b \in SeqsUpTo({Ch.A, Ch.T, GAP}, MaxLen)
    /\ gap_open \in {-2, -1}
    /\ gap_extend \in {-1, 0}
    /\ matrix = DNA_AT
    /\ ScorerIdle("entry")
    /\ arg_seqj = <<>>
    /\ arg_seqi = <<>>
    /\ method = "global"
    /\ gap_double = 0
    /\ AlignerIdle("idle")

NextScorer == ScoreEntry \/ ScoreStep \/ ScoreReturn

SpecScorer == InitScorer /\ [][NextScorer]_vars

\* aligner up to the end of the recurrence, the loops taken one cell at a time
NextFill == Entry \/ FillBegin \/ FillStep \/ FillEnd

SpecFill == Init /\ [][NextFill]_vars

\* two invocations of aligner: each runs alone, then both run again with
\* their steps interleaved in every possible way
ParSeqs == SeqsUpTo({Ch.A, Ch.T}, MaxLen - 1) \ {<<>>}

InitPar == InitWith(ParSeqs, Methods, {-1}, {-1}, {-1}, {DNA_AT})

NextPar ==
    Entry \/ Fill \/ SelectStart \/ TracebackStep \/ Return \/ Relay \/ Launch \/ Switch

SpecPar == InitPar /\ [][NextPar]_vars

\* aligner with a positive gap_double, which no assertion rejects
InitDouble == InitWith(DNASeqs, Methods, {-1, 0}, {-1}, {1, 2}, {DNA_AT})

SpecDouble == InitDouble /\ [][Next]_vars

\* aligner from its entry to its return, the loops taken one cell at a time
InitWhole == InitWith(DNASeqs, Methods, {-1, 0}, {-1}, {-2, 0, 1}, {DNA_AT})

NextWhole ==
    Entry \/ FillBegin \/ FillStep \/ FillEnd \/ SelectStart \/ TracebackStep \/ Return

SpecWhole == InitWhole /\ [][NextWhole]_vars

\* aligner called with a method that is none of the four
OtherMethods == {"Global", "overlap"}

InitMode ==
    InitWith(DNASeqs, Methods \cup OtherMethods, {-1}, {-1}, {-1}, {DNA_AT})

SpecMode == InitMode /\ [][Next]_vars

\* ------------------------------------------------------------------ claims
Strip(x) == SelectSeq(x, LAMBDA c : c # GAP)
HasGap(x) == \E k \in 1..Len(x) : x[k] = GAP
Returned == pc \in {"done", "scored"}
BothEmpty == arg_seqj = <<>> /\ arg_seqi = <<>>
\* the score aligner holds at the cell its traceback started at
StartScore == score[start[1]][start[2]]

\* C1: for every input pair, mode and non-positive gap penalties,
\* score_alignment of the pair aligner returned equals the score of the grid
\* cell at which the traceback started.
C1_ScorerAgreesWithAligner ==
    (pc = "scored" /\ score # NoGrid) =>
        (rescore.exc = "none" /\ rescore.score = StartScore)

\* C2: in global mode, for inputs that are not both empty, the traceback
\* starts at (lenRow, lenCol) and each output without its gap markers is the
\* corresponding input.
C2_GlobalConsumesBothInputs ==
    (Returned /\ method = "global" /\ ~BothEmpty) =>
        /\ start = <<max_i, max_j>>
        /\ Strip(ret[1]) = arg_seqj
        /\ Strip(ret[2]) = arg_seqi

\* C3: in local mode the returned pair never scores below zero, and the
\* empty alignment is returned when the inputs share no symbol (no pairing
\* scores above zero).
SharedSymbol ==
    \E u \in 1..Len(arg_seqj), v \in 1..Len(arg_seqi) :
        OrdAt(as_ord_matrix(matrix), arg_seqj[u], arg_seqi[v]) > 0
C3_LocalNeverNegative ==
    (pc = "scored" /\ method = "local") =>
        /\ rescore.exc = "none"
        /\ rescore.score >= 0
        /\ ~SharedSymbol => ret = << <<>>, <<>> >>

\* C4: global mode, symmetric matrix: the second call, with the inputs
\* exchanged, returns the first call's pair exchanged and starts its
\* traceback at the same score.
SecondDone == calls = 2 /\ pc = "done"
Exchanged == ret[1] = prev_ret[2] /\ ret[2] = prev_ret[1]
BestScore == IF score = NoGrid THEN 0 ELSE StartScore
\* C4 as stated: for all A and B, of equal or different lengths.
C4_ExactSwapAnyLength == SecondDone => (Exchanged /\ BestScore = prev_best)
\* C4 amended: the start score is the same for all A and B; the pairs are
\* exchanged when the lengths differ.
C4_SwapWhenLengthsDiffer ==
    SecondDone =>
        /\ BestScore = prev_best
        /\ Len(arg_seqj) # Len(arg_seqi) => Exchanged
C4_Witness ==
    /\ SecondDone
    /\ Len(arg_seqj) # Len(arg_seqi)
    /\ Exchanged
    /\ HasGap(ret[1]) \/ HasGap(ret[2])
    /\ ret[1] # ret[2]

\* C5: a call with gap_open > 0 or gap_extend > 0 ends in the assertion
\* error before any grid exists, whatever the inputs, both empty included.
C5_PositiveGapRejected ==
    ((gap_open > 0 \/ gap_extend > 0) /\ pc # "entry") =>
        (pc = "raised" /\ exc = "AssertionError" /\ score = NoGrid)

\* C6: a call whose inputs hold a symbol outside the matrix's alphabet never
\* returns an alignment or a score: aligner ends in an error once a symbol
\* pair is looked up (both inputs non-empty), and so does score_alignment on
\* a pair that holds such a symbol at a position without gap.
Unmapped(c) == AlphaPos(matrix.alphabet, c) = 0
HasUnmapped(x) == \E k \in 1..Len(x) : Unmapped(x[k])
ScoredUnmapped(x, y) ==
    \E k \in 1..Len(x) : x[k] # GAP /\ y[k] # GAP /\ (Unmapped(x[k]) \/ Unmapped(y[k]))
C6_UnmappedSymbolRaises ==
    /\ (arg_seqj # <<>> /\ arg_seqi # <<>> /\ (HasUnmapped(arg_seqj) \/ HasUnmapped(arg_seqi)))
          => ~Returned
    /\ (pc = "scored" /\ Len(ret[1]) = Len(ret[2]) /\ ScoredUnmapped(ret[1], ret[2]))
          => rescore.exc # "none"

\* C7: score_alignment charges, at a position with a gap marker, gap_extend
\* only if the preceding position held a gap in the same sequence and gap_open
\* otherwise; at a position without gap it adds the substitution score.
ClaimCharge(x, y, k, go, ge, mat) ==
    IF x[k] = GAP \/ y[k] = GAP
    THEN IF k > 1 /\ ((x[k] = GAP /\ x[k - 1] = GAP) \/ (y[k] = GAP /\ y[k - 1] = GAP))
         THEN ge ELSE go
    ELSE OrdAt(mat, x[k], y[k])
RECURSIVE ClaimScore(_, _, _, _, _, _)
ClaimScore(x, y, n, go, ge, mat) ==
    IF n = 0 THEN 0
    ELSE ClaimScore(x, y, n - 1, go, ge, mat) + ClaimCharge(x, y, n, go, ge, mat)
C7_GapChargedPerSequence ==
    s_pc \in {"loop", "done"} =>
        /\ s_score = ClaimScore(a, b, s_i, gap_open, gap_extend, as_ord_matrix(matrix))
        /\ gap_started = (s_i > 0 /\ (a[s_i] = GAP \/ b[s_i] = GAP))

\* C8: score_alignment on sequences of different lengths ends in the
\* length assertion and returns no score; on equal lengths it never does.
C8_LengthMismatchRaises ==
    s_pc \notin {"idle", "entry"} =>
        /\ Len(a) # Len(b) => (s_pc = "raised" /\ s_exc = "AssertionError")
        /\ Len(a) = Len(b) => s_exc # "AssertionError"
C8_Witness ==
    /\ s_pc = "raised"
    /\ s_exc = "AssertionError"
    /\ Len(a) > Len(b)
    /\ Len(b) > 0

\* C9: with both inputs empty aligner returns two empty outputs without
\* error in every mode, and score_alignment of the two returns 0.
C9_BothEmptyReturnsEmpty ==
    BothEmpty =>
        /\ pc \in {"entry", "done", "scored"}
        /\ Returned => (ret = << <<>>, <<>> >> /\ exc = "none")
        /\ pc = "scored" => (rescore.exc = "none" /\ rescore.score = 0)
C9_Witness ==
    /\ BothEmpty
    /\ pc = "scored"
    /\ method = "local"
    /\ ret = << <<>>, <<>> >>
    /\ rescore.score = 0

\* C10: glocal mode, negative gap penalties, the shorter input S an exact
\* contiguous substring of the longer input L: the output of S is S itself,
\* neither output holds a gap marker, and the two outputs are equal symbol
\* by symbol.
Shorter == IF Len(arg_seqj) > Len(arg_seqi) THEN arg_seqi ELSE arg_seqj
Longer == IF Len(arg_seqj) > Len(arg_seqi) THEN arg_seqj ELSE arg_seqi
OutOfShorter == IF Len(arg_seqj) > Len(arg_seqi) THEN ret[2] ELSE ret[1]
OccursAt(S, L, off) ==
    /\ off + Len(S) <= Len(L)
    /\ \A k \in 1..Len(S) : L[off + k] = S[k]
Occurs(S, L) == \E off \in 0..Len(L) : OccursAt(S, L, off)
NegativeGaps == gap_open < 0 /\ gap_extend < 0 /\ gap_double < 0
C10_GlocalExactSubstring ==
    (Returned /\ method = "glocal" /\ NegativeGaps /\ Occurs(Shorter, Longer)) =>
        /\ OutOfShorter = Shorter
        /\ ~HasGap(ret[1]) /\ ~HasGap(ret[2])
        /\ ret[1] = ret[2]
C10_Witness ==
    /\ Returned /\ method = "glocal" /\ NegativeGaps
    /\ Len(Shorter) = 2
    /\ Len(Longer) = 3
    /\ OccursAt(Shorter, Longer, 0)
    /\ ~OccursAt(Shorter, Longer, 1)
    /\ ret[1] = Shorter /\ ret[2] = Shorter

\* C11: global_cfe mode, matches positive, mismatches and gap penalties
\* negative, the shorter input S (not empty) an exact contiguous substring of
\* the longer input L = X S Y whose flanks X and Y only mismatch S: the larger
\* of the last-row and last-column maxima equals the same quantity for S
\* aligned with S alone, and the returned alignment is L without gap against
\* S at one of its occurrences with a gap marker under every flank symbol.
OutOfLonger == IF Len(arg_seqj) > Len(arg_seqi) THEN ret[1] ELSE ret[2]
FreeEndsBest(array, mi, mj) ==
    max2(array[mi][ArgMax(LastRow(array, mi, mj), mj)],
         array[ArgMax(LastCol(array, mi, mj), mi)][mj])
CoreGrids(S) ==
    FillFrom(InitGrids(3, Len(S), Len(S), gap_open, gap_extend),
             0, S, S, gap_open, gap_extend, gap_double, as_ord_matrix(matrix))
FlanksMismatch(S, L, off) ==
    \A k \in (1..Len(L)) \ ((off + 1)..(off + Len(S))) : \A q \in 1..Len(S) :
        OrdAt(as_ord_matrix(matrix), L[k], S[q]) < 0
Embedded(S, L) ==
    /\ Len(S) >= 1
    /\ \A q \in 1..Len(S) : OrdAt(as_ord_matrix(matrix), S[q], S[q]) > 0
    /\ \E off \in 0..Len(L) : OccursAt(S, L, off) /\ FlanksMismatch(S, L, off)
Padded(S, n, off) ==
    [k \in 1..n |-> IF k \in (off + 1)..(off + Len(S)) THEN S[k - off] ELSE GAP]
C11_FreeEndsCoreScore ==
    (method = "global_cfe" /\ NegativeGaps /\ Embedded(Shorter, Longer)) =>
        /\ pc \in {"entry", "fill", "select", "walk", "done", "scored"}
        /\ pc \in {"select", "walk", "done", "scored"} =>
              FreeEndsBest(score, max_i, max_j)
                  = FreeEndsBest(CoreGrids(Shorter).score, Len(Shorter), Len(Shorter))
        /\ Returned =>
              /\ OutOfLonger = Longer
              /\ \E off \in 0..Len(Longer) :
                    /\ OccursAt(Shorter, Longer, off)
                    /\ OutOfShorter = Padded(Shorter, Len(Longer), off)
C11_Witness ==
    /\ Returned /\ method = "global_cfe" /\ NegativeGaps
    /\ Len(Shorter) = 1
    /\ Len(Longer) = 3
    /\ OccursAt(Shorter, Longer, 1)
    /\ FlanksMismatch(Shorter, Longer, 1)
    /\ OutOfLonger = Longer
    /\ OutOfShorter = <<GAP, Shorter[1], GAP>>
    /\ FreeEndsBest(score, max_i, max_j) = 1

\* C12: two inputs of equal length n >= 1, non-positive gap penalties, any of
\* the four modes: the call reaches its traceback, and the score at the cell
\* the traceback starts at is at least the score of the ungapped alignment,
\* the sum over k of substitution(A[k], B[k]).
RECURSIVE UngappedScore(_, _, _)
UngappedScore(x, y, n) ==
    IF n = 0 THEN 0
    ELSE UngappedScore(x, y, n - 1) + OrdAt(as_ord_matrix(matrix), x[n], y[n])
EqualLength == Len(arg_seqj) = Len(arg_seqi) /\ Len(arg_seqj) >= 1
C12_StartAtLeastUngapped ==
    EqualLength =>
        /\ pc # "raised"
        /\ pc \in {"walk", "done", "scored"} =>
              StartScore >= UngappedScore(arg_seqj, arg_seqi, Len(arg_seqj))
C12_Witness ==
    /\ pc = "scored"
    /\ method = "global_cfe"
    /\ Len(arg_seqj) = 3
    /\ Len(arg_seqi) = 3
    /\ gap_open < 0
    /\ StartScore > UngappedScore(arg_seqj, arg_seqi, 3)
    /\ HasGap(ret[1])

\* C13: whatever the relative lengths of the inputs, each output without its
\* gap markers is a contiguous substring of the input in the same position:
\* output 1 of input 1 (_seqj), output 2 of input 2 (_seqi).
C13_OutputsFollowInputOrder ==
    Returned =>
        /\ Occurs(Strip(ret[1]), arg_seqj)
        /\ Occurs(Strip(ret[2]), arg_seqi)
C13_Witness ==
    /\ Returned
    /\ flip
    /\ Len(arg_seqi) >= 1
    /\ HasGap(ret[2])
    /\ Strip(ret[1]) = arg_seqj
    /\ ~Occurs(Strip(ret[1]), arg_seqi)
    /\ ~Occurs(Strip(ret[2]), arg_seqj)

\* C14: for every input pair and every mode the two outputs have the same
\* length and no position holds a gap marker in both; the same holds of the
\* two buffers at every step of the walk.
NoDoubleGap(x, y) ==
    /\ Len(x) = Len(y)
    /\ \A k \in 1..Len(x) : ~(x[k] = GAP /\ y[k] = GAP)
C14_EqualLengthNoDoubleGap ==
    /\ Returned => NoDoubleGap(ret[1], ret[2])
    /\ pc = "walk" => NoDoubleGap(align_j, align_i)
C14_Witness ==
    /\ Returned
    /\ Len(ret[1]) = 4
    /\ HasGap(ret[1])
    /\ HasGap(ret[2])
    /\ NoDoubleGap(ret[1], ret[2])

\* C15: global mode with gap_double = gap_open: once the grids are filled,
\* score[r,c] is, for every cell, the largest affine score of any gapped
\* alignment of the first r row symbols with the first c column symbols
\* (substitution scores of the paired symbols, plus gap_open + (k - 1) *
\* gap_extend for every maximal run of k gap markers in one sequence).
\* RefScores enumerates the alignments: the set of <<score, last move>> of
\* all of them, the last move telling whether a further gap extends a run.
RECURSIVE RefScores(_, _)
RefScores(r, c) ==
    IF r = 0 /\ c = 0 THEN {<<0, NONE>>}
    ELSE (IF r >= 1 /\ c >= 1
          THEN {<<e[1] + OrdAt(as_ord_matrix(matrix), seqi[r], seqj[c]), DIAG>> :
                    e \in RefScores(r - 1, c - 1)}
          ELSE {})
         \cup
         (IF r >= 1
          THEN {<<e[1] + (IF e[2] = UP THEN gap_extend ELSE gap_open), UP>> :
                    e \in RefScores(r - 1, c)}
          ELSE {})
         \cup
         (IF c >= 1
          THEN {<<e[1] + (IF e[2] = LEFT THEN gap_extend ELSE gap_open), LEFT>> :
                    e \in RefScores(r, c - 1)}
          ELSE {})
RefBest(r, c) ==
    LET vs == {e[1] : e \in RefScores(r, c)}
    IN  CHOOSE v \in vs : \A w \in vs : w <= v
C15_GlobalScoreIsOptimal ==
    (pc = "select" /\ method = "global" /\ gap_double = gap_open) =>
        \A r \in 0..max_i, c \in 0..max_j : score[r][c] = RefBest(r, c)

\* C16: at every interior cell the direction the recurrence recorded is UP
\* whenever the cell's score equals the column-gap candidate agap_j[r,c],
\* otherwise LEFT whenever it equals the row-gap candidate agap_i[r,c], and
\* DIAG only when the diagonal candidate is strictly greater than both.  The
\* directions are read when the recurrence has ended and, in the modes that
\* do not rewrite pointers afterwards, up to the return.
DiagCandidate(r, c) ==
    score[r - 1][c - 1] + OrdAt(as_ord_matrix(matrix), seqi[r], seqj[c])
TieBreakAt(r, c) ==
    IF score[r][c] = agap_j[r][c] THEN pointer[r][c] = UP
    ELSE IF score[r][c] = agap_i[r][c] THEN pointer[r][c] = LEFT
    ELSE /\ pointer[r][c] = DIAG
         /\ score[r][c] = DiagCandidate(r, c)
         /\ DiagCandidate(r, c) > agap_j[r][c]
         /\ DiagCandidate(r, c) > agap_i[r][c]
RecurrenceEnded ==
    \/ pc = "select"
    \/ pc \in {"walk", "done", "scored"} /\ score # NoGrid /\ imethod # 3
C16_TieBreakUpLeftDiag ==
    RecurrenceEnded => \A r \in 1..max_i, c \in 1..max_j : TieBreakAt(r, c)
C16_Witness ==
    /\ pc = "select"
    /\ \E r \in 1..max_i, c \in 1..max_j :
          /\ score[r][c] = agap_j[r][c]
          /\ score[r][c] = agap_i[r][c]
          /\ score[r][c] = DiagCandidate(r, c)
          /\ pointer[r][c] = UP
    /\ \E r \in 1..max_i, c \in 1..max_j :
          /\ score[r][c] # agap_j[r][c]
          /\ score[r][c] = agap_i[r][c]
          /\ score[r][c] = DiagCandidate(r, c)
          /\ pointer[r][c] = LEFT
    /\ \E r \in 1..max_i, c \in 1..max_j : pointer[r][c] = DIAG

\* C18: a call with a method other than 'global', 'local', 'glocal' and
\* 'global_cfe' ends in an error: it never fills the grids and never returns
\* an alignment.
C18_UnknownModeRaises ==
    (method \notin Methods /\ pc # "entry") =>
        (pc = "raised" /\ score = NoGrid)

\* C19: the interior cells are filled in row-major order; at every cell
\* filled, agap_i[r,c] (the row-gap grid) is the largest of score[r,c-1] +
\* gap_open, agap_i[r,c-1] + gap_extend and agap_j[r,c-1] + gap_double,
\* agap_j[r,c] (the column-gap grid) the largest of score[r-1,c] + gap_open,
\* agap_j[r-1,c] + gap_extend and agap_i[r-1,c] + gap_double, and score[r,c]
\* the largest of score[r-1,c-1] + substitution, agap_j[r,c] and agap_i[r,c];
\* each cell is written once, and the cells an iteration reads are written
\* before it runs.
LargestOf(S) == CHOOSE v \in S : \A w \in S : w <= v
RecurrenceAt(r, c) ==
    /\ agap_i[r][c] = LargestOf({FAdd(score[r][c - 1], gap_open),
                                 FAdd(agap_i[r][c - 1], gap_extend),
                                 FAdd(agap_j[r][c - 1], gap_double)})
    /\ agap_j[r][c] = LargestOf({FAdd(score[r - 1][c], gap_open),
                                 FAdd(agap_j[r - 1][c], gap_extend),
                                 FAdd(agap_i[r - 1][c], gap_double)})
    /\ score[r][c] = LargestOf({DiagCandidate(r, c), agap_j[r][c], agap_i[r][c]})
Border == {rc \in (0..max_i) \X (0..max_j) : rc[1] = 0 \/ rc[2] = 0}
RowMajorPrefix(n) ==
    {rc \in (1..max_i) \X (1..max_j) : (rc[1] - 1) * max_j + (rc[2] - 1) < n}
C19_RecurrenceRowMajor ==
    pc \in {"filling", "select"} =>
        /\ written = Border \cup RowMajorPrefix(fill_k)
        /\ Cardinality(written) = Cardinality(Border) + fill_k
        /\ \A rc \in written \ Border : RecurrenceAt(rc[1], rc[2])
        /\ fill_k < max_i * max_j =>
              /\ CellOf(fill_k, max_j) \notin written
              /\ ReadsOf(CellOf(fill_k, max_j)[1], CellOf(fill_k, max_j)[2]) \subseteq written
        /\ pc = "select" => written = (0..max_i) \X (0..max_j)
C19_Witness ==
    /\ pc = "filling"
    /\ max_i = 3
    /\ max_j = 2
    /\ fill_k = 4
    /\ \E rc \in written \ Border :
          /\ agap_i[rc[1]][rc[2]] = FAdd(agap_j[rc[1]][rc[2] - 1], gap_double)
          /\ agap_i[rc[1]][rc[2]] > FAdd(score[rc[1]][rc[2] - 1], gap_open)
          /\ agap_i[rc[1]][rc[2]] > FAdd(agap_i[rc[1]][rc[2] - 1], gap_extend)
          /\ score[rc[1]][rc[2]] = agap_i[rc[1]][rc[2]]

\* C20: global mode: before the recurrence runs, and at every iteration of it
\* up to its end, pointer[0,c] = LEFT and score[0,c] = gap_open + gap_extend *
\* (c - 1) for c in 1..max_j, pointer[r,0] = UP and score[r,0] = gap_open +
\* gap_extend * (r - 1) for r in 1..max_i, and score[0,0] = 0 with pointer
\* NONE.
C20_GlobalBorders ==
    (method = "global" /\ pc \in {"filling", "select"}) =>
        /\ score[0][0] = 0
        /\ pointer[0][0] = NONE
        /\ \A c \in 1..max_j :
              pointer[0][c] = LEFT /\ score[0][c] = gap_open + gap_extend * (c - 1)
        /\ \A r \in 1..max_i :
              pointer[r][0] = UP /\ score[r][0] = gap_open + gap_extend * (r - 1)
C20_Witness ==
    /\ method = "global"
    /\ pc = "select"
    /\ fill_k = 6
    /\ max_i = 3
    /\ max_j = 2
    /\ gap_open = -2
    /\ gap_extend = -1
    /\ score[3][0] = -4
    /\ score[0][2] = -3
    /\ pointer[3][0] = UP
    /\ pointer[0][2] = LEFT

\* C17: two invocations of aligner that run concurrently and share only the
\* matrix: under every interleaving of their steps each returns, without
\* error, the pair it returned when it ran alone, and no step changes the
\* input sequences of either invocation or the matrix.
ThreadFrame(t) == IF tid = t THEN Frame ELSE parked
InputsOf(t) == <<ThreadFrame(t).arg_seqj, ThreadFrame(t).arg_seqi>>
SameAsAlone ==
    calls = 3 =>
        \A t \in {1, 2} :
            /\ ThreadFrame(t).pc # "raised"
            /\ ThreadFrame(t).pc = "done" => ThreadFrame(t).ret = alone[t]
InputsKept ==
    (calls = 3 /\ calls' = 3) =>
        /\ InputsOf(1)' = InputsOf(1)
        /\ InputsOf(2)' = InputsOf(2)
        /\ matrix' = matrix
C17_ConcurrentCallsIndependent == []SameAsAlone /\ [][InputsKept]_vars
C17_Witness ==
    /\ calls = 3
    /\ tid = 1
    /\ pc = "done"
    /\ ret = alone[1]
    /\ HasGap(ret[1]) \/ HasGap(ret[2])
    /\ parked.pc = "walk"
    /\ Len(parked.align_j) >= 1
    /\ parked.method # method

\* C21: glocal mode: row 0 is seeded as in global (pointer[0,c] = LEFT and
\* score[0,c] = gap_open + gap_extend * (c - 1) for c >= 1) while column 0
\* keeps score 0 and pointer NONE at every row; global_cfe mode: LEFT along
\* row 0 and UP down column 0 as in global, with every score of row 0 and
\* column 0 equal to 0.  Both hold from the initialisation to the end of the
\* recurrence.
GlocalBorders ==
    /\ \A c \in 1..max_j :
          pointer[0][c] = LEFT /\ score[0][c] = gap_open + gap_extend * (c - 1)
    /\ \A r \in 0..max_i : pointer[r][0] = NONE /\ score[r][0] = 0
FreeEndsBorders ==
    /\ pointer[0][0] = NONE
    /\ \A c \in 1..max_j : pointer[0][c] = LEFT
    /\ \A r \in 1..max_i : pointer[r][0] = UP
    /\ \A c \in 0..max_j : score[0][c] = 0
    /\ \A r \in 0..max_i : score[r][0] = 0
C21_GlocalAndFreeEndsBorders ==
    pc \in {"filling", "select"} =>
        /\ method = "glocal" => GlocalBorders
        /\ method = "global_cfe" => FreeEndsBorders
C21_Witness ==
    /\ pc = "select"
    /\ method = "glocal"
    /\ max_i = 3
    /\ max_j = 2
    /\ gap_open = -2
    /\ gap_extend = -1
    /\ score[0][2] = -3
    /\ score[3][0] = 0
    /\ pointer[3][0] = NONE
    /\ pointer[0][2] = LEFT

\* C22: local mode: once the grids are filled every cell of the score grid
\* is >= 0; an interior cell whose recurrence value (the largest of the
\* three candidates) is negative holds score 0 and pointer NONE.
RecurrenceValue(r, c) ==
    LargestOf({DiagCandidate(r, c), agap_j[r][c], agap_i[r][c]})
C22_LocalClampsAtZero ==
    (method = "local" /\ pc = "select") =>
        /\ \A r \in 0..max_i, c \in 0..max_j : score[r][c] >= 0
        /\ \A r \in 1..max_i, c \in 1..max_j :
              RecurrenceValue(r, c) < 0 => (score[r][c] = 0 /\ pointer[r][c] = NONE)

\* C23: local mode: the traceback starts at the cell holding the maximum of
\* the whole score grid, the earliest such cell in row-major order.
Precedes(rc, qd) == rc[1] < qd[1] \/ (rc[1] = qd[1] /\ rc[2] < qd[2])
IsEarliestMax(cell) ==
    \A rc \in (0..max_i) \X (0..max_j) :
        /\ score[rc[1]][rc[2]] <= score[cell[1]][cell[2]]
        /\ Precedes(rc, cell) => score[rc[1]][rc[2]] < score[cell[1]][cell[2]]
Walking == pc \in {"walk", "done", "scored"} /\ score # NoGrid
C23_LocalStartsAtGridMaximum ==
    (method = "local" /\ Walking) => IsEarliestMax(start)

C25_GlocalConsumesShorter ==
    method = "glocal" =>
        /\ pc # "raised"
        /\ Walking =>
              /\ start[2] = max_j
              /\ \A r \in 0..max_i : score[r][max_j] <= score[start[1]][max_j]
        /\ (pc = "walk" /\ p = NONE) => j = 0
        /\ Returned => (j = 0 /\ Strip(OutOfShorter) = Shorter)
C25_Witness ==
    /\ method = "glocal"
    /\ pc = "done"
    /\ flip
    /\ max_i = 3
    /\ max_j = 2
    /\ start[1] = 2
    /\ i = 1
    /\ j = 0
    /\ HasGap(OutOfShorter)
    /\ Strip(OutOfShorter) = Shorter

\* C26: global_cfe mode, every input pair, the shorter input empty included:
\* the call does not raise; if the maximum of the last row is strictly
\* larger than that of the last column every last-row cell after the row
\* argmax holds LEFT, otherwise every last-column cell after the column
\* argmax holds UP; the traceback starts at (max_i, max_j) and ends at
\* (0,0), and each output without its gap markers is its input.
RowArgMax == ArgMax(LastRow(score, max_i, max_j), max_j)
ColArgMax == ArgMax(LastCol(score, max_i, max_j), max_i)
FreeEndForced ==
    IF score[max_i][RowArgMax] > score[ColArgMax][max_j]
    THEN \A c \in (RowArgMax + 1)..max_j : pointer[max_i][c] = LEFT
    ELSE \A r \in (ColArgMax + 1)..max_i : pointer[r][max_j] = UP
FreeEndsWalk ==
    /\ pc # "raised"
    /\ Walking => (start = <<max_i, max_j>> /\ FreeEndForced)
    /\ (pc = "walk" /\ p = NONE) => (i = 0 /\ j = 0)
    /\ Returned =>
          /\ i = 0 /\ j = 0
          /\ Strip(ret[1]) = arg_seqj
          /\ Strip(ret[2]) = arg_seqi
C26_FreeEndsConsumesBoth == method = "global_cfe" => FreeEndsWalk

\* C27: each step of the walk follows the pointer p of the current cell:
\* DIAG decrements i and j and emits the row symbol and the column symbol of
\* the cell left, LEFT decrements j only and emits the column symbol against
\* a gap on the row side, UP decrements i only and emits the row symbol
\* against a gap on the column side; the walk ends at the first cell whose
\* pointer is NONE and the outputs are the two buffers reversed, so that
\* each output without its gap markers is its sequence from the path's end
\* cell (exclusive) to its start cell (inclusive), in input order.
Between(s, lo, hi) == [k \in 1..(hi - lo) |-> s[lo + k]]
LastOf(s) == s[Len(s)]
RowOut == IF flip THEN ret[1] ELSE ret[2]
ColOut == IF flip THEN ret[2] ELSE ret[1]
PathSymbols(row, col) ==
    /\ Strip(row) = Between(seqi, i, start[1])
    /\ Strip(col) = Between(seqj, WrapIdx(j, max_j + 1), start[2])
WalkKeepsPath ==
    /\ pc = "walk" =>
          /\ p = At(pointer, i, j, max_i, max_j)
          /\ PathSymbols(Reverse(align_i), Reverse(align_j))
    /\ (Returned /\ score # NoGrid) => PathSymbols(RowOut, ColOut)
WalkStep ==
    /\ (pc = "walk" /\ pc' = "walk" /\ Len(align_i') = Len(align_i) + 1) =>
          /\ p \in {DIAG, LEFT, UP}
          /\ Len(align_j') = Len(align_j) + 1
          /\ p = DIAG => /\ i' = i - 1 /\ j' = j - 1
                         /\ LastOf(align_i') = seqi[i]
                         /\ LastOf(align_j') = seqj[j]
          /\ p = LEFT => /\ i' = i /\ j' = j - 1
                         /\ LastOf(align_i') = GAP
                         /\ LastOf(align_j') = seqj[j]
          /\ p = UP   => /\ i' = i - 1 /\ j' = j
                         /\ LastOf(align_i') = seqi[i]
                         /\ LastOf(align_j') = GAP
    /\ (pc = "walk" /\ pc' = "walk") => p # NONE
    /\ (pc = "walk" /\ pc' = "done") =>
          /\ p = NONE
          /\ RowOut' = Reverse(align_i)
          /\ ColOut' = Reverse(align_j)
C27_WalkFollowsPointers == []WalkKeepsPath /\ [][WalkStep]_vars
C27_Witness ==
    /\ pc = "done"
    /\ flip
    /\ i = 1
    /\ j = 0
    /\ HasGap(RowOut)
    /\ HasGap(ColOut)
    /\ \E k \in 1..Len(RowOut) : RowOut[k] # GAP /\ ColOut[k] # GAP
    /\ Strip(RowOut) = Between(seqi, 1, start[1])
    /\ Strip(ColOut) = seqj

\* C28: every input pair, every mode, every gap_double (positive ones
\* included): the call reaches its walk, and during the walk i and j are
\* never negative, every step has lowered i + j by at least one, and the
\* number of columns emitted never exceeds max_i + max_j, the size of the
\* two buffers.
WalkBounded ==
    /\ i >= 0
    /\ j >= 0
    /\ Len(align_i) = Len(align_j)
    /\ Len(align_i) <= (start[1] + start[2]) - (i + j)
    /\ Len(align_i) <= max_i + max_j
C28_WalkTerminates ==
    /\ pc # "raised"
    /\ pc = "walk" => WalkBounded

\* C29: for every input pair and every mode, every cell of the pointer grid
\* holds NONE, LEFT, UP or DIAG after the initialisation, at every iteration
\* of the recurrence, after the forced pointers of global_cfe and during the
\* walk, so the walk never raises the error of an unrecognised pointer.
Directions == {NONE, LEFT, UP, DIAG}
C29_PointersAreDirections ==
    /\ exc # "Exception"
    /\ pointer # NoGrid =>
          \A r \in 0..max_i, c \in 0..max_j : pointer[r][c] \in Directions
    /\ pc = "walk" => p \in Directions
C29_Witness ==
    /\ pc = "done"
    /\ method = "global_cfe"
    /\ max_i = 3
    /\ max_j = 2
    /\ \A d \in Directions : \E r \in 0..max_i, c \in 0..max_j : pointer[r][c] = d
    /\ pointer[3][2] = UP
    /\ score[3][2] # agap_j[3][2]

\* C30: once the grids are filled, pointer NONE appears only at (0,0) in
\* global and global_cfe mode, only in column 0 in glocal mode, and in local
\* mode only in row 0, in column 0 and at interior cells that were clamped
\* (negative recurrence value, score 0); no interior cell holds NONE in
\* global, glocal or global_cfe mode.
NoneCells == {rc \in (0..max_i) \X (0..max_j) : pointer[rc[1]][rc[2]] = NONE}
Clamped(r, c) == RecurrenceValue(r, c) < 0 /\ score[r][c] = 0
C30_NoneOnlyAtPathStarts ==
    pc = "select" =>
        /\ method \in {"global", "global_cfe"} => NoneCells = {<<0, 0>>}
        /\ method = "glocal" => NoneCells = (0..max_i) \X {0}
        /\ method = "local" =>
              \A rc \in NoneCells :
                  rc[1] = 0 \/ rc[2] = 0 \/ Clamped(rc[1], rc[2])
        /\ method # "local" => \A rc \in NoneCells : rc[1] = 0 \/ rc[2] = 0
C30_Witness ==
    /\ pc = "select"
    /\ method = "glocal"
    /\ max_i = 3
    /\ max_j = 2
    /\ Cardinality(NoneCells) = 4
    /\ \E r \in 1..max_i, c \in 1..max_j : pointer[r][c] = DIAG
    /\ \E r \in 1..max_i, c \in 1..max_j : score[r][c] < 0

====
